---- MODULE Spec2Model ----
(***************************************************************************)
(* Model of app/snapshot.py: the snapshot orchestrator build_snapshot, the *)
(* static report build_demo_snapshot and the four detectors.               *)
(*                                                                         *)
(* Python floats are carried as integers in hundredths (50.0 is 5000,      *)
(* 1250.50 is 125050), Optional[float] as <<>> (None) or <<v>>, dicts as   *)
(* functions whose DOMAIN is the set of keys present, and f-strings as the *)
(* strings they render.                                                    *)
(***************************************************************************)
EXTENDS Integers, Sequences, FiniteSets, TLC

VARIABLES
    pc,                          \* position of the running call
    fn,                          \* the function the running call executes
    google_ads_developer_token,  \* settings.google_ads_developer_token
    customer_id,                 \* argument of build_snapshot
    date_range,                  \* argument of build_snapshot
    calls,                       \* provider calls made so far, in order
    ran,                         \* detectors entered so far, in order
    account_kpis,                \* locals of build_snapshot / detector arguments
    campaign_kpis,
    search_terms,
    policy_issues,
    disapproved_products,
    issues,                      \* the running list `issues` of the executing function
    recommendations,             \* the running list `recommendations`
    e,                           \* the exception bound by `except Exception as e`
    result,                      \* the value returned to the caller
    propagated                   \* the exception that left the call, "none" if none

vars == <<pc, fn, google_ads_developer_token, customer_id, date_range, calls, ran,
          account_kpis, campaign_kpis, search_terms, policy_issues,
          disapproved_products, issues, recommendations, e, result, propagated>>

----------------------------------------------------------------------------
(* Bounds of the explored inputs.                                          *)

MaxShort == 2        \* arbitrary detector inputs have at most this many records
MaxLive == 2         \* provider results on the live path have at most this many records
MaxProducts == 12    \* longest disapproved-product list (beyond the limit of 10)
MaxSearchTerms == 16 \* longest search-term list (beyond the limit of 15)
MaxPolicy == 11      \* longest policy-issue list (beyond the limit of 10)

----------------------------------------------------------------------------
(* Values.                                                                 *)

None == <<>>
Some(v) == <<v>>
Truthy(o) == o # None /\ o[1] # 0      \* truth value of an Optional[float]

Hundredths(n) == n * 100               \* the float n.00

Min(a, b) == IF a < b THEN a ELSE b

TwoDigits(n) == IF n < 10 THEN "0" \o ToString(n) ELSE ToString(n)

\* f"{x:.2f}" of a non-negative float carried in hundredths
Fmt2f(x) == ToString(x \div 100) \o "." \o TwoDigits(x % 100)

\* s[:n]
Slice(s, n) == SubSeq(s, 1, Min(Len(s), n))

\* d.get(k)
Get(d, k) == IF k \in DOMAIN d THEN d[k] ELSE None

NoException == [cls |-> "none", origin |-> "none"]
NoResult == [summary |-> <<>>, top_issues |-> <<>>, recommended_actions |-> <<>>]
NoFindings == [issues |-> <<>>, recommendations |-> <<>>]

Issue(type, severity, description, metadata) ==
    [type |-> type, severity |-> severity, description |-> description,
     metadata |-> metadata]

RecommendedAction(action_type, description, priority, related_issue_type) ==
    [action_type |-> action_type, description |-> description,
     priority |-> priority, related_issue_type |-> related_issue_type]

\* the findings of b appended to those of a (list.append / list.extend on both lists)
Extend(a, b) == [issues |-> a.issues \o b.issues,
                 recommendations |-> a.recommendations \o b.recommendations]

----------------------------------------------------------------------------
(* build_demo_snapshot: the static report.                                 *)

build_demo_snapshot(cid, range) ==
    [summary |-> [date_range |-> range,
                  total_spend |-> 125050,
                  total_conversions |-> 4500,
                  average_cpa |-> 2779,
                  roas |-> 320,
                  currency |-> "USD"],
     top_issues |-> <<
        Issue("disapproved_product", "high",
              "Product 'Premium Wireless Headphones' (ID: 5521) is disapproved: Invalid GTIN",
              [product_id |-> "5521",
               product_title |-> "Premium Wireless Headphones",
               issues |-> <<"Invalid GTIN">>]),
        Issue("zero_conversion_campaign", "high",
              "Campaign 'Display - Retargeting' spent $150.00 with 0 conversions",
              [campaign_id |-> "998877",
               campaign_name |-> "Display - Retargeting",
               spend |-> 15000,
               conversions |-> 0]),
        Issue("wasteful_search_term", "medium",
              "Search term 'free headphones' spent $45.20 with 0 conversions",
              [search_term |-> "free headphones",
               cost |-> 4520,
               clicks |-> 32,
               conversions |-> 0]) >>,
     recommended_actions |-> <<
        RecommendedAction("fix_product_feed",
              "Fix product data for 'Premium Wireless Headphones' and request a review in Merchant Center",
              "high", "disapproved_product"),
        RecommendedAction("optimize_campaign",
              "Review and optimize campaign 'Display - Retargeting' or pause it to prevent budget waste",
              "high", "zero_conversion_campaign"),
        RecommendedAction("add_negative_keyword",
              "Add 'free headphones' as a negative keyword to prevent budget waste",
              "medium", "wasteful_search_term") >>]

----------------------------------------------------------------------------
(* The detectors.  Each loop body is an operator giving the findings one   *)
(* record appends; the detector appends them record by record.             *)

RECURSIVE ExtendAll(_)
ExtendAll(fs) ==
    IF fs = <<>> THEN NoFindings ELSE Extend(Head(fs), ExtendAll(Tail(fs)))

\* ---- analyze_disapproved_products

product_findings(product) ==
    LET issue_desc == "Product '" \o product.title \o "' (ID: " \o product.product_id
                      \o ") is disapproved"
                      \o (IF product.issues # <<>> THEN ": " \o product.issues[1] ELSE "")
    IN [issues |-> << Issue("disapproved_product", "high", issue_desc,
                            [product_id |-> product.product_id,
                             product_title |-> product.title,
                             issues |-> product.issues]) >>,
        recommendations |-> << RecommendedAction("fix_product_feed",
                            "Fix product data for '" \o product.title
                               \o "' and request a review in Merchant Center",
                            "high", "disapproved_product") >>]

\* the slice written [-10:]: the last ten products instead of the first ten
analyze_disapproved_products_last10(products) ==
    LET top == SubSeq(products, Len(products) - Min(Len(products), 10) + 1, Len(products))
    IN ExtendAll([i \in 1..Len(top) |-> product_findings(top[i])])

analyze_disapproved_products(products) ==
    LET top == Slice(products, 10)
    IN ExtendAll([i \in 1..Len(top) |-> product_findings(top[i])])

\* ---- analyze_campaigns

zero_conversion_findings(campaign) ==
    [issues |-> << Issue("zero_conversion_campaign", "high",
                         "Campaign '" \o campaign.campaign_name \o "' spent $"
                            \o Fmt2f(campaign.spend) \o " with 0 conversions",
                         [campaign_id |-> campaign.campaign_id,
                          campaign_name |-> campaign.campaign_name,
                          spend |-> campaign.spend,
                          conversions |-> campaign.conversions]) >>,
     recommendations |-> << RecommendedAction("optimize_campaign",
                         "Review and optimize campaign '" \o campaign.campaign_name
                            \o "' or pause it to prevent budget waste",
                         "high", "zero_conversion_campaign") >>]

high_cpa_findings(campaign, avg_account_cpa) ==
    [issues |-> << Issue("high_cpa_campaign", "medium",
                         "Campaign '" \o campaign.campaign_name \o "' has CPA of $"
                            \o Fmt2f(campaign.cpa[1]) \o ", 2x higher than account average",
                         [campaign_id |-> campaign.campaign_id,
                          campaign_name |-> campaign.campaign_name,
                          cpa |-> campaign.cpa,
                          account_avg_cpa |-> avg_account_cpa]) >>,
     recommendations |-> << RecommendedAction("optimize_campaign",
                         "Optimize targeting or ad copy for campaign '"
                            \o campaign.campaign_name \o "' to reduce CPA",
                         "medium", "high_cpa_campaign") >>]

high_cpa(campaign, avg_account_cpa) ==
    /\ Truthy(campaign.cpa)
    /\ Truthy(avg_account_cpa)
    /\ campaign.cpa[1] > avg_account_cpa[1] * 2

\* the second rule written `if` instead of `elif`: both rules may fire
campaign_findings_two_ifs(campaign, avg_account_cpa) ==
    Extend(IF campaign.conversions = 0 /\ campaign.spend > Hundredths(50)
              THEN zero_conversion_findings(campaign) ELSE NoFindings,
           IF high_cpa(campaign, avg_account_cpa)
              THEN high_cpa_findings(campaign, avg_account_cpa) ELSE NoFindings)

campaign_findings(campaign, avg_account_cpa) ==
    IF campaign.conversions = 0 /\ campaign.spend > Hundredths(50)
    THEN zero_conversion_findings(campaign)
    ELSE IF high_cpa(campaign, avg_account_cpa)
    THEN high_cpa_findings(campaign, avg_account_cpa)
    ELSE NoFindings

analyze_campaigns(campaigns, kpis) ==
    LET avg_account_cpa == Get(kpis, "average_cpa")
    IN ExtendAll([i \in 1..Len(campaigns) |->
                     campaign_findings(campaigns[i], avg_account_cpa)])

\* ---- analyze_search_terms

wasteful_findings(term) ==
    [issues |-> << Issue("wasteful_search_term", "medium",
                         "Search term '" \o term.search_term \o "' spent $"
                            \o Fmt2f(term.cost) \o " with 0 conversions",
                         [search_term |-> term.search_term,
                          cost |-> term.cost,
                          clicks |-> term.clicks,
                          conversions |-> term.conversions]) >>,
     recommendations |-> << RecommendedAction("add_negative_keyword",
                         "Add '" \o term.search_term
                            \o "' as a negative keyword to prevent budget waste",
                         "medium", "wasteful_search_term") >>]

low_conversion_issue(term) ==
    Issue("low_conversion_search_term", "low",
          "Search term '" \o term.search_term \o "' has low conversion rate ("
             \o Fmt2f(term.conversion_rate[1]) \o "%) with $" \o Fmt2f(term.cost)
             \o " spend",
          [search_term |-> term.search_term,
           cost |-> term.cost,
           conversion_rate |-> term.conversion_rate])

low_conversion_findings(term) ==
    [issues |-> << low_conversion_issue(term) >>,
     recommendations |-> << RecommendedAction("review_search_term",
                         "Review search term '" \o term.search_term
                            \o "' and consider adding as negative or adjusting match type",
                         "low", "low_conversion_search_term") >>]

\* the second rule appends its issue but not its recommendation
search_term_findings_no_review(term) ==
    IF term.conversions = 0 /\ term.cost > Hundredths(20)
    THEN wasteful_findings(term)
    ELSE IF /\ Truthy(term.conversion_rate)
            /\ term.conversion_rate[1] < Hundredths(1)
            /\ term.cost > Hundredths(50)
    THEN [issues |-> << low_conversion_issue(term) >>, recommendations |-> <<>>]
    ELSE NoFindings

search_term_findings(term) ==
    IF term.conversions = 0 /\ term.cost > Hundredths(20)
    THEN wasteful_findings(term)
    ELSE IF /\ Truthy(term.conversion_rate)
            /\ term.conversion_rate[1] < Hundredths(1)
            /\ term.cost > Hundredths(50)
    THEN low_conversion_findings(term)
    ELSE NoFindings

analyze_search_terms(terms) ==
    LET top == Slice(terms, 15)
    IN ExtendAll([i \in 1..Len(top) |-> search_term_findings(top[i])])

\* ---- analyze_policy_issues

PolicyKeys == {"ad_name", "campaign_name", "approval_status"}

\* policy_issue['ad_name'] etc. raise KeyError on a record lacking the key
policy_record_raises(policy_issue) == ~(PolicyKeys \subseteq DOMAIN policy_issue)

policy_findings(policy_issue) ==
    [issues |-> << Issue("policy_limited_ad", "medium",
                         "Ad '" \o policy_issue["ad_name"] \o "' in campaign '"
                            \o policy_issue["campaign_name"] \o "' has approval status: "
                            \o policy_issue["approval_status"],
                         policy_issue) >>,
     recommendations |-> << RecommendedAction("fix_policy_issue",
                         "Review and modify ad '" \o policy_issue["ad_name"]
                            \o "' to comply with Google Ads policies",
                         "medium", "policy_limited_ad") >>]

\* whether the loop over policy_issues[:10] raises
analyze_policy_issues_raises(records) ==
    \E i \in 1..Len(Slice(records, 10)) : policy_record_raises(records[i])

\* the findings appended by the loop, up to the record that raises if one does
analyze_policy_issues(records) ==
    LET top == Slice(records, 10)
        bad == {i \in 1..Len(top) : policy_record_raises(top[i])}
        n == IF bad = {} THEN Len(top)
             ELSE (CHOOSE i \in bad : \A j \in bad : i <= j) - 1
    IN ExtendAll([i \in 1..n |-> policy_findings(top[i])])

----------------------------------------------------------------------------
(* The two sorts of build_snapshot.  list.sort(key=...) is a stable sort:  *)
(* an element moves to the position given by the number of elements with a *)
(* smaller key plus the number of earlier elements with the same key.      *)

severity_order(severity) ==
    CASE severity = "high" -> 0
      [] severity = "medium" -> 1
      [] severity = "low" -> 2
      [] OTHER -> 3

priority_order(priority) ==
    CASE priority = "high" -> 0
      [] priority = "medium" -> 1
      [] priority = "low" -> 2
      [] OTHER -> 3

\* s sorted by keys, keys[i] being the key of s[i]
StableSort(s, keys) ==
    LET n == Len(s)
        pos(i) == 1 + Cardinality({j \in 1..n :
                        \/ keys[j] < keys[i]
                        \/ keys[j] = keys[i] /\ j < i})
    IN [p \in 1..n |-> s[CHOOSE i \in 1..n : pos(i) = p]]

\* a sort that is not stable: elements of equal key come out in reverse order
ReversingSort(s, keys) ==
    LET n == Len(s)
        pos(i) == 1 + Cardinality({j \in 1..n :
                        \/ keys[j] < keys[i]
                        \/ keys[j] = keys[i] /\ j > i})
    IN [p \in 1..n |-> s[CHOOSE i \in 1..n : pos(i) = p]]

sort_issues_unstable(found) ==
    ReversingSort(found, [i \in 1..Len(found) |-> severity_order(found[i].severity)])

sort_issues(found) ==
    StableSort(found, [i \in 1..Len(found) |-> severity_order(found[i].severity)])

sort_recommendations_unstable(recs) ==
    ReversingSort(recs, [i \in 1..Len(recs) |-> priority_order(recs[i].priority)])

sort_recommendations(recs) ==
    StableSort(recs, [i \in 1..Len(recs) |-> priority_order(recs[i].priority)])

----------------------------------------------------------------------------
(* Inputs: what the providers may return, and the detector arguments.      *)

SummaryKeys == {"total_spend", "total_conversions", "average_cpa", "roas", "currency"}

AccountKpis(average_cpa) ==
    [total_spend |-> 98765, total_conversions |-> 1200,
     average_cpa |-> average_cpa, roas |-> 250, currency |-> "EUR"]

\* the dict d without key k
Without(d, k) == [x \in DOMAIN d \ {k} |-> d[x]]

Number(i) == ToString(i)

Campaign(i, shape) ==
    [campaign_id |-> Number(1000 + i), campaign_name |-> "Campaign " \o Number(i),
     spend |-> shape.spend, conversions |-> shape.conversions, cpa |-> shape.cpa]

CampaignShapes ==
    [spend : {Hundredths(50), Hundredths(51)},
     conversions : {0, Hundredths(1)},
     cpa : {None, Some(0), Some(Hundredths(100))}]

AverageCpas == {None, Some(0), Some(Hundredths(40)), Some(Hundredths(50))}

SearchTerm(i, shape) ==
    [search_term |-> "term " \o Number(i), cost |-> shape.cost, clicks |-> 10 + i,
     conversions |-> shape.conversions, conversion_rate |-> shape.conversion_rate]

Costs == <<Hundredths(20), Hundredths(21), Hundredths(50), Hundredths(51)>>
Rates == <<None, Some(0), Some(50), Some(Hundredths(1))>>

\* the k-th of the 32 combinations of cost, conversions and conversion_rate
SearchTermShape(k) ==
    [cost |-> Costs[(k % 4) + 1],
     conversions |-> IF (k \div 4) % 2 = 0 THEN 0 ELSE Hundredths(1),
     conversion_rate |-> Rates[((k \div 8) % 4) + 1]]

Product(k) ==
    [product_id |-> Number(5520 + k), title |-> "Product " \o Number(k),
     issues |-> CASE k % 3 = 0 -> <<>>
                  [] k % 3 = 1 -> <<"Invalid GTIN">>
                  [] OTHER -> <<"Missing image", "Invalid price">>]

PolicyRecord(i) ==
    [ad_name |-> "Ad " \o Number(i), campaign_name |-> "Campaign " \o Number(i),
     approval_status |-> "DISAPPROVED"]

\* the shapes of a policy record: complete, complete with a free-form key,
\* or lacking one of the three required keys
PolicyShape(i, shape) ==
    CASE shape = "ok" -> PolicyRecord(i)
      [] shape = "extra" -> [ad_name |-> "Ad " \o Number(i),
                             campaign_name |-> "Campaign " \o Number(i),
                             approval_status |-> "APPROVED_LIMITED",
                             policy_topic |-> "TRADEMARKS"]
      [] OTHER -> Without(PolicyRecord(i), shape)

PolicyShapes == {"ok", "extra"} \cup PolicyKeys

\* all lists of at most n shapes drawn from S
ShapeLists(S, n) == UNION {[1..m -> S] : m \in 0..n}

Campaigns(shapes) == [i \in 1..Len(shapes) |-> Campaign(i, shapes[i])]
SearchTerms(shapes) == [i \in 1..Len(shapes) |-> SearchTerm(i, shapes[i])]
PolicyRecords(shapes) == [i \in 1..Len(shapes) |-> PolicyShape(i, shapes[i])]

From(lo, hi) == {n \in lo..hi : n >= 0}

ProductLists ==
    UNION {{[i \in 1..m |-> Product(i)], [i \in 1..m |-> Product(m + 1 - i)]} :
              m \in 0..MaxProducts}

CampaignLists == {Campaigns(f) : f \in ShapeLists(CampaignShapes, MaxShort)}

DetectorKpis ==
    {AccountKpis(a) : a \in AverageCpas} \cup {Without(AccountKpis(None), "average_cpa")}

\* lists of every length whose shapes walk through the 32 combinations
SearchTermLists ==
    {[i \in 1..m |-> SearchTerm(i, SearchTermShape((off + step * i) % 32))] :
        m \in 0..MaxSearchTerms, off \in 0..31, step \in {1, 5}}

PolicyLists ==
    {PolicyRecords(f) : f \in ShapeLists(PolicyShapes, MaxShort)}
    \cup {[i \in 1..m |-> IF i = k THEN Without(PolicyRecord(i), "ad_name")
                                   ELSE PolicyRecord(i)] :
             m \in From(MaxPolicy - 2, MaxPolicy), k \in 0..MaxPolicy}

\* provider results on the live path
LiveAccountKpis ==
    {AccountKpis(Some(Hundredths(40))), AccountKpis(None),
     Without(AccountKpis(Some(Hundredths(40))), "currency")}

LiveCampaignShapes ==
    {[spend |-> Hundredths(51), conversions |-> 0, cpa |-> None],
     [spend |-> Hundredths(51), conversions |-> Hundredths(1), cpa |-> Some(Hundredths(100))]}

LiveProductLists == {[i \in 1..m |-> Product(i)] : m \in 0..MaxLive}

LiveSearchTermShapes == {SearchTermShape(9), SearchTermShape(23)}

LivePolicyShapes == {"ok", "approval_status"}

Providers ==
    <<"ads_get_account_kpis", "ads_get_campaign_kpis", "ads_get_search_terms",
      "ads_get_policy_issues", "mc_get_disapproved_products">>

Detectors ==
    <<"analyze_disapproved_products", "analyze_campaigns", "analyze_search_terms",
      "analyze_policy_issues">>

\* the classes of the exceptions that arise; all derive from Exception
ExceptionSubclasses == {"ProviderError", "KeyError"}
ProviderErrors == {"ProviderError"}

----------------------------------------------------------------------------
(* build_snapshot.                                                         *)

\* `not settings.google_ads_developer_token`
demo_mode_never(token) == FALSE

demo_mode(token) == token = ""

Summary(range, kpis) ==
    [date_range |-> range,
     total_spend |-> kpis["total_spend"],
     total_conversions |-> kpis["total_conversions"],
     average_cpa |-> kpis["average_cpa"],
     roas |-> kpis["roas"],
     currency |-> kpis["currency"]]

\* the exception leaves build_snapshot
Propagate(err) ==
    /\ e' = NoException
    /\ result' = NoResult
    /\ propagated' = err.cls
    /\ pc' = "raised"

\* the handler returns the static report
Fallback(err) ==
    /\ e' = err
    /\ result' = build_demo_snapshot(customer_id, date_range)
    /\ propagated' = "none"
    /\ pc' = "returned"

\* a handler written for the provider's error class only
except_clause_provider_only(err) ==
    IF err.cls \in ProviderErrors THEN Fallback(err) ELSE Propagate(err)

\* a handler that keeps the account figures already fetched
except_clause_partial(err) ==
    /\ e' = err
    /\ result' = IF SummaryKeys \subseteq DOMAIN account_kpis
                 THEN [build_demo_snapshot(customer_id, date_range)
                          EXCEPT !.summary = Summary(date_range, account_kpis)]
                 ELSE build_demo_snapshot(customer_id, date_range)
    /\ propagated' = "none"
    /\ pc' = "returned"

\* except Exception as e: ... return build_demo_snapshot(customer_id, date_range)
except_clause(err) ==
    IF err.cls \in ExceptionSubclasses THEN Fallback(err) ELSE Propagate(err)

\* the statement after the call of provider number k
AfterProvider(k) == IF k < Len(Providers) THEN Providers[k + 1] ELSE "build_report"

\* lines 35-36: demo mode, or enter the try block
CheckToken ==
    /\ fn = "build_snapshot"
    /\ pc = "check_token"
    /\ IF demo_mode(google_ads_developer_token)
       THEN /\ result' = build_demo_snapshot(customer_id, date_range)
            /\ pc' = "returned"
       ELSE /\ pc' = Providers[1]
            /\ UNCHANGED result
    /\ UNCHANGED <<fn, google_ads_developer_token, customer_id, date_range, calls, ran,
                   account_kpis, campaign_kpis, search_terms, policy_issues,
                   disapproved_products, issues, recommendations, e, propagated>>

FetchAccountKpis ==
    /\ fn = "build_snapshot"
    /\ pc = "ads_get_account_kpis"
    /\ calls' = Append(calls, "ads_get_account_kpis")
    /\ \E r \in LiveAccountKpis : account_kpis' = r
    /\ pc' = AfterProvider(1)
    /\ UNCHANGED <<fn, google_ads_developer_token, customer_id, date_range, ran,
                   campaign_kpis, search_terms, policy_issues, disapproved_products,
                   issues, recommendations, e, result, propagated>>

FetchCampaignKpis ==
    /\ fn = "build_snapshot"
    /\ pc = "ads_get_campaign_kpis"
    /\ calls' = Append(calls, "ads_get_campaign_kpis")
    /\ \E f \in ShapeLists(LiveCampaignShapes, MaxLive) : campaign_kpis' = Campaigns(f)
    /\ pc' = AfterProvider(2)
    /\ UNCHANGED <<fn, google_ads_developer_token, customer_id, date_range, ran,
                   account_kpis, search_terms, policy_issues, disapproved_products,
                   issues, recommendations, e, result, propagated>>

FetchSearchTerms ==
    /\ fn = "build_snapshot"
    /\ pc = "ads_get_search_terms"
    /\ calls' = Append(calls, "ads_get_search_terms")
    /\ \E f \in ShapeLists(LiveSearchTermShapes, MaxLive) : search_terms' = SearchTerms(f)
    /\ pc' = AfterProvider(3)
    /\ UNCHANGED <<fn, google_ads_developer_token, customer_id, date_range, ran,
                   account_kpis, campaign_kpis, policy_issues, disapproved_products,
                   issues, recommendations, e, result, propagated>>

FetchPolicyIssues ==
    /\ fn = "build_snapshot"
    /\ pc = "ads_get_policy_issues"
    /\ calls' = Append(calls, "ads_get_policy_issues")
    /\ \E f \in ShapeLists(LivePolicyShapes, MaxLive) : policy_issues' = PolicyRecords(f)
    /\ pc' = AfterProvider(4)
    /\ UNCHANGED <<fn, google_ads_developer_token, customer_id, date_range, ran,
                   account_kpis, campaign_kpis, search_terms, disapproved_products,
                   issues, recommendations, e, result, propagated>>

FetchDisapprovedProducts ==
    /\ fn = "build_snapshot"
    /\ pc = "mc_get_disapproved_products"
    /\ calls' = Append(calls, "mc_get_disapproved_products")
    /\ \E r \in LiveProductLists : disapproved_products' = r
    /\ pc' = AfterProvider(5)
    /\ UNCHANGED <<fn, google_ads_developer_token, customer_id, date_range, ran,
                   account_kpis, campaign_kpis, search_terms, policy_issues,
                   issues, recommendations, e, result, propagated>>

\* the provider call at pc raises: control passes to the except clause
ProviderRaises ==
    /\ fn = "build_snapshot"
    /\ \E k \in 1..Len(Providers) : pc = Providers[k]
    /\ calls' = Append(calls, pc)
    /\ \E cls \in ProviderErrors : except_clause([cls |-> cls, origin |-> pc])
    /\ UNCHANGED <<fn, google_ads_developer_token, customer_id, date_range, ran,
                   account_kpis, campaign_kpis, search_terms, policy_issues,
                   disapproved_products, issues, recommendations>>

\* lines 48-94: the summary, the four detectors in order, the two sorts, the return;
\* a KeyError of the summary or of the policy detector passes to the except clause
BuildReport ==
    /\ fn = "build_snapshot"
    /\ pc = "build_report"
    /\ IF ~(SummaryKeys \subseteq DOMAIN account_kpis)
       THEN /\ except_clause([cls |-> "KeyError", origin |-> "Summary"])
            /\ UNCHANGED <<ran, issues, recommendations>>
       ELSE LET found ==
                  Extend(Extend(Extend(analyze_disapproved_products(disapproved_products),
                                       analyze_campaigns(campaign_kpis, account_kpis)),
                                analyze_search_terms(search_terms)),
                         analyze_policy_issues(policy_issues))
            IN /\ ran' = Detectors
               /\ IF analyze_policy_issues_raises(policy_issues)
                  THEN /\ issues' = found.issues
                       /\ recommendations' = found.recommendations
                       /\ except_clause([cls |-> "KeyError",
                                         origin |-> "analyze_policy_issues"])
                  ELSE LET sorted_issues == sort_issues(found.issues)
                           sorted_recs == sort_recommendations(found.recommendations)
                       IN /\ issues' = sorted_issues
                          /\ recommendations' = sorted_recs
                          /\ result' = [summary |-> Summary(date_range, account_kpis),
                                        top_issues |-> sorted_issues,
                                        recommended_actions |-> sorted_recs]
                          /\ pc' = "returned"
                          /\ UNCHANGED <<e, propagated>>
    /\ UNCHANGED <<fn, google_ads_developer_token, customer_id, date_range, calls,
                   account_kpis, campaign_kpis, search_terms, policy_issues,
                   disapproved_products>>

Blank ==
    /\ customer_id = "123"
    /\ calls = <<>>
    /\ ran = <<>>
    /\ issues = <<>>
    /\ recommendations = <<>>
    /\ e = NoException
    /\ result = NoResult
    /\ propagated = "none"

Init ==
    /\ fn = "build_snapshot"
    /\ pc = "check_token"
    /\ google_ads_developer_token \in {"", "dev-token"}
    /\ date_range \in {"7d", "30d"}
    /\ account_kpis = <<>>
    /\ campaign_kpis = <<>>
    /\ search_terms = <<>>
    /\ policy_issues = <<>>
    /\ disapproved_products = <<>>
    /\ Blank

Next ==
    \/ CheckToken
    \/ FetchAccountKpis
    \/ FetchCampaignKpis
    \/ FetchSearchTerms
    \/ FetchPolicyIssues
    \/ FetchDisapprovedProducts
    \/ ProviderRaises
    \/ BuildReport

Spec == Init /\ [][Next]_vars

----------------------------------------------------------------------------
(* The detectors on their own: one call of one detector on drawn inputs.   *)

Return(found) ==
    /\ issues' = found.issues
    /\ recommendations' = found.recommendations
    /\ pc' = "returned"
    /\ UNCHANGED <<fn, google_ads_developer_token, customer_id, date_range, calls, ran,
                   account_kpis, campaign_kpis, search_terms, policy_issues,
                   disapproved_products, e, result>>

CallAnalyzeDisapprovedProducts ==
    /\ fn = "analyze_disapproved_products"
    /\ pc = "called"
    /\ Return(analyze_disapproved_products(disapproved_products))
    /\ UNCHANGED propagated

CallAnalyzeCampaigns ==
    /\ fn = "analyze_campaigns"
    /\ pc = "called"
    /\ Return(analyze_campaigns(campaign_kpis, account_kpis))
    /\ UNCHANGED propagated

CallAnalyzeSearchTerms ==
    /\ fn = "analyze_search_terms"
    /\ pc = "called"
    /\ Return(analyze_search_terms(search_terms))
    /\ UNCHANGED propagated

CallAnalyzePolicyIssues ==
    /\ fn = "analyze_policy_issues"
    /\ pc = "called"
    /\ IF analyze_policy_issues_raises(policy_issues)
       THEN /\ issues' = analyze_policy_issues(policy_issues).issues
            /\ recommendations' = analyze_policy_issues(policy_issues).recommendations
            /\ propagated' = "KeyError"
            /\ pc' = "raised"
            /\ UNCHANGED <<fn, google_ads_developer_token, customer_id, date_range,
                           calls, ran, account_kpis, campaign_kpis, search_terms,
                           policy_issues, disapproved_products, e, result>>
       ELSE /\ Return(analyze_policy_issues(policy_issues))
            /\ UNCHANGED propagated

InitDetector ==
    /\ pc = "called"
    /\ google_ads_developer_token = "dev-token"
    /\ date_range = "7d"
    /\ Blank
    /\ \/ /\ fn = "analyze_disapproved_products"
          /\ disapproved_products \in ProductLists
          /\ account_kpis = <<>> /\ campaign_kpis = <<>>
          /\ search_terms = <<>> /\ policy_issues = <<>>
       \/ /\ fn = "analyze_campaigns"
          /\ campaign_kpis \in CampaignLists
          /\ account_kpis \in DetectorKpis
          /\ disapproved_products = <<>>
          /\ search_terms = <<>> /\ policy_issues = <<>>
       \/ /\ fn = "analyze_search_terms"
          /\ search_terms \in SearchTermLists
          /\ account_kpis = <<>> /\ campaign_kpis = <<>>
          /\ disapproved_products = <<>> /\ policy_issues = <<>>
       \/ /\ fn = "analyze_policy_issues"
          /\ policy_issues \in PolicyLists
          /\ account_kpis = <<>> /\ campaign_kpis = <<>>
          /\ disapproved_products = <<>> /\ search_terms = <<>>

NextDetector ==
    \/ CallAnalyzeDisapprovedProducts
    \/ CallAnalyzeCampaigns
    \/ CallAnalyzeSearchTerms
    \/ CallAnalyzePolicyIssues

SpecDetector == InitDetector /\ [][NextDetector]_vars

----------------------------------------------------------------------------
(* Properties.                                                             *)

Live == fn = "build_snapshot" /\ google_ads_developer_token # ""

LiveReturned == Live /\ pc = "returned" /\ e = NoException

\* the detector outputs concatenated in the order products, campaigns, search terms, policy
Emitted ==
    Extend(Extend(Extend(analyze_disapproved_products(disapproved_products),
                         analyze_campaigns(campaign_kpis, account_kpis)),
                  analyze_search_terms(search_terms)),
           analyze_policy_issues(policy_issues))

\* the rank of a severity or priority token as the claims state it
Rank(token) == IF token = "high" THEN 0
               ELSE IF token = "medium" THEN 1
               ELSE IF token = "low" THEN 2 ELSE 3

\* the elements of s whose token has rank r, in the order of s
OfRank(s, tokens, r) ==
    LET idx == {i \in 1..Len(s) : Rank(tokens[i]) = r}
    IN [k \in 1..Cardinality(idx) |->
           s[CHOOSE i \in idx : Cardinality({j \in idx : j <= i}) = k]]

\* out is the stable sort of in by rank: ranks never decrease along out, and for
\* every rank the elements of that rank are those of in, in the order of in
StablySorted(out, outTokens, in, inTokens) ==
    /\ Len(out) = Len(in)
    /\ \A i \in 1..(Len(out) - 1) : Rank(outTokens[i]) <= Rank(outTokens[i + 1])
    /\ \A r \in 0..3 : OfRank(out, outTokens, r) = OfRank(in, inTokens, r)

Severities(s) == [i \in 1..Len(s) |-> s[i].severity]
Priorities(s) == [i \in 1..Len(s) |-> s[i].priority]

\* C1: with credentials configured no exception leaves build_snapshot, and whenever a
\* provider call, the policy detector or the summary construction raised, the call
\* has returned the static fallback report.
C1_NeverPropagates ==
    Live => /\ propagated = "none"
            /\ pc # "raised"
            /\ e # NoException =>
                  /\ pc = "returned"
                  /\ result = build_demo_snapshot(customer_id, date_range)
                  /\ result.summary.total_spend = 125050

C1_Witness ==
    /\ Live
    /\ pc = "returned"
    /\ e = [cls |-> "KeyError", origin |-> "analyze_policy_issues"]

\* C2: without a developer token no provider is ever called and the call returns the
\* static report: total_spend 1250.50, currency USD, first issue disapproved_product.
C2_DemoMode ==
    (fn = "build_snapshot" /\ google_ads_developer_token = "") =>
        /\ calls = <<>>
        /\ pc \in {"check_token", "returned"}
        /\ pc = "returned" =>
              /\ result = build_demo_snapshot(customer_id, date_range)
              /\ result.summary.total_spend = 125050
              /\ result.summary.currency = "USD"
              /\ result.top_issues[1].type = "disapproved_product"

C2_Witness ==
    /\ fn = "build_snapshot"
    /\ google_ads_developer_token = ""
    /\ pc = "returned"

IssuesOfCampaign(c) ==
    {j \in 1..Len(issues) : issues[j].metadata.campaign_id = c.campaign_id}

\* C3: analyze_campaigns emits at most one issue per campaign, and for a campaign with
\* conversions == 0 and spend > 50 exactly one, of type zero_conversion_campaign and
\* severity high, whatever its CPA and the account average CPA.
C3_FirstMatchWins ==
    (fn = "analyze_campaigns" /\ pc = "returned") =>
        \A i \in 1..Len(campaign_kpis) :
            LET c == campaign_kpis[i] IN
            /\ Cardinality(IssuesOfCampaign(c)) <= 1
            /\ (c.conversions = 0 /\ c.spend > 5000) =>
                  /\ Cardinality(IssuesOfCampaign(c)) = 1
                  /\ \A j \in IssuesOfCampaign(c) :
                        /\ issues[j].type = "zero_conversion_campaign"
                        /\ issues[j].severity = "high"

C3_Witness ==
    /\ fn = "analyze_campaigns"
    /\ pc = "returned"
    /\ \E i \in 1..Len(campaign_kpis) :
          /\ campaign_kpis[i].conversions = 0
          /\ campaign_kpis[i].spend = 5100
          /\ campaign_kpis[i].cpa = <<10000>>
          /\ account_kpis["average_cpa"] = <<4000>>
          /\ Cardinality(IssuesOfCampaign(campaign_kpis[i])) = 1

LowConversionFindings(t) ==
    {j \in 1..Len(issues) :
        /\ issues[j].metadata.search_term = t.search_term
        /\ issues[j].type = "low_conversion_search_term"
        /\ issues[j].severity = "low"
        /\ recommendations[j].action_type = "review_search_term"
        /\ recommendations[j].priority = "low"}

\* C4: among the first 15 search terms, a term that is not wasteful (not both
\* conversions == 0 and cost > 20) and whose conversion_rate is defined, a rate of 0
\* included, yields low_conversion_search_term / review_search_term (both low)
\* exactly when conversion_rate < 1.0 and cost > 50.
C4_LowConversionRule ==
    (fn = "analyze_search_terms" /\ pc = "returned") =>
        \A i \in 1..Len(search_terms) :
            LET t == search_terms[i] IN
            (/\ i <= 15
             /\ ~(t.conversions = 0 /\ t.cost > 2000)
             /\ t.conversion_rate # <<>>) =>
                (LowConversionFindings(t) # {}
                    <=> (t.conversion_rate[1] < 100 /\ t.cost > 5000))

\* The rule of line 308 as the code applies it: the same equivalence for the terms
\* whose conversion_rate is defined and not 0.
LowConversionRuleNonzeroRate ==
    (fn = "analyze_search_terms" /\ pc = "returned") =>
        \A i \in 1..Len(search_terms) :
            LET t == search_terms[i] IN
            (/\ i <= 15
             /\ ~(t.conversions = 0 /\ t.cost > 2000)
             /\ t.conversion_rate # <<>>
             /\ t.conversion_rate[1] # 0) =>
                (LowConversionFindings(t) # {}
                    <=> (t.conversion_rate[1] < 100 /\ t.cost > 5000))

\* C5: analyze_disapproved_products returns min(n, 10) issues, the i-th describing
\* the i-th input product, and nothing for an empty input.
C5_StableTruncation ==
    (fn = "analyze_disapproved_products" /\ pc = "returned") =>
        LET n == Len(disapproved_products) IN
        /\ Len(issues) = (IF n < 10 THEN n ELSE 10)
        /\ \A i \in 1..Len(issues) :
              /\ issues[i].type = "disapproved_product"
              /\ issues[i].metadata.product_id = disapproved_products[i].product_id
        /\ n = 0 => issues = <<>> /\ recommendations = <<>>

C5_Witness ==
    /\ fn = "analyze_disapproved_products"
    /\ pc = "returned"
    /\ Len(disapproved_products) = 12
    /\ disapproved_products[1].product_id = "5532"
    /\ Len(issues) = 10

\* C6: the live report's top_issues (recommended_actions) is the stable sort by
\* severity (priority) rank of the detector outputs concatenated in the order
\* products, campaigns, search terms, policy.
C6_StableSort ==
    LiveReturned =>
        /\ StablySorted(result.top_issues, Severities(result.top_issues),
                        Emitted.issues, Severities(Emitted.issues))
        /\ StablySorted(result.recommended_actions, Priorities(result.recommended_actions),
                        Emitted.recommendations, Priorities(Emitted.recommendations))

C6_Witness ==
    /\ LiveReturned
    /\ result.top_issues # Emitted.issues
    /\ \E i, j \in 1..Len(result.top_issues) :
          /\ i < j
          /\ result.top_issues[i].severity = result.top_issues[j].severity
          /\ result.top_issues[i].type # result.top_issues[j].type

\* C7: every detector returns two lists of the same length, the action at position i
\* naming the type of the issue at position i.
C7_ParallelLists ==
    (fn # "build_snapshot" /\ pc = "returned") =>
        /\ Len(issues) = Len(recommendations)
        /\ \A i \in 1..Len(issues) :
              recommendations[i].related_issue_type = issues[i].type

C7_Witness ==
    /\ fn = "analyze_search_terms"
    /\ pc = "returned"
    /\ \E i, j \in 1..Len(issues) :
          /\ issues[i].type = "wasteful_search_term"
          /\ issues[j].type = "low_conversion_search_term"

CallOrder ==
    <<"ads_get_account_kpis", "ads_get_campaign_kpis", "ads_get_search_terms",
      "ads_get_policy_issues", "mc_get_disapproved_products">>

\* C9: the provider calls made are a prefix of the fixed order (each at most once, no
\* retry); once a call has failed it is the last call made, no detector has run and
\* the report returned is the complete static report.
C9_AllOrNothing ==
    Live =>
        /\ Len(calls) <= 5
        /\ calls = SubSeq(CallOrder, 1, Len(calls))
        /\ e.cls = "ProviderError" =>
              /\ calls # <<>>
              /\ calls[Len(calls)] = e.origin
              /\ ran = <<>>
              /\ pc = "returned"
              /\ result = build_demo_snapshot(customer_id, date_range)

C9_Witness ==
    /\ Live
    /\ pc = "returned"
    /\ e.origin = "ads_get_search_terms"
    /\ Len(campaign_kpis) = MaxLive
    /\ SummaryKeys \subseteq DOMAIN account_kpis

\* C10: in every report build_snapshot returns, top_issues and recommended_actions
\* have the same length and position i pairs an issue with an action of the same
\* severity/priority and of related_issue_type equal to the issue's type.
C10_PairedAfterSort ==
    (fn = "build_snapshot" /\ pc = "returned") =>
        /\ Len(result.top_issues) = Len(result.recommended_actions)
        /\ \A i \in 1..Len(result.top_issues) :
              /\ result.recommended_actions[i].priority = result.top_issues[i].severity
              /\ result.recommended_actions[i].related_issue_type
                    = result.top_issues[i].type

C10_Witness ==
    /\ LiveReturned
    /\ result.top_issues # Emitted.issues
    /\ result.recommended_actions # Emitted.recommendations
    /\ Len(result.top_issues) >= 4

====
